---- MODULE Spec2Model ----
(***************************************************************************)
(* Model of taichi's hierarchical profiler (include/taichi/system/         *)
(* profiler.h): the process-wide ProfilerRecords tree, the scope-bound    *)
(* Profiler regions that push/pop its cursor, and the report printer.      *)
(*                                                                         *)
(* Nodes live in an arena: `nodes` is a sequence of Node records, a Node * *)
(* is an index into it, the root is index 1 and nullptr is 0.              *)
(* Times are integers counted in ticks of 1/TicksPerSecond seconds; a      *)
(* float64 quotient is kept exact as a pair <<numerator, denominator>>.    *)
(***************************************************************************)
EXTENDS Integers, Sequences, FiniteSets, TLC

(* ------------------------------ bounds -------------------------------- *)

\* Number of Profiler constructions (pushes) in one run.
MaxPushes == 3

\* Number of explicit stop() calls in one run.
MaxStopCalls == 1

(* ------------------------------ inputs -------------------------------- *)

\* Region names used by the instrumented code.
Names == {"A", "B"}

\* Ticks per second of the readings of Time::get_time().
TicksPerSecond == 100

\* The readings Time::get_time() may return: 0 s and 0.20 s.
Times == {0, 20}

(* ------------------------------ the tree ------------------------------ *)

nullptr == 0

\* ProfilerRecords(): the root is the first node made.
RootId == 1

RootName == "[Taichi Profiler]"

\* Node::Node(name, parent)
\* A mutant of the Node constructor: a node starts with no sample counted.
Node_without_initial_sample(name, parent) ==
  [name |-> name, parent |-> parent, childs |-> <<>>,
   total_time |-> 0, num_samples |-> 0]

Node(name, parent) ==
  [name |-> name, parent |-> parent, childs |-> <<>>,
   total_time |-> 0, num_samples |-> 1]

Min(S) == CHOOSE x \in S : \A y \in S : x <= y

\* A mutant of get_child: the scan misses, a child is always appended.
get_child_always_new(ns, p, name) ==
  LET id == Len(ns) + 1
  IN  [nodes |-> Append([ns EXCEPT ![p].childs = Append(@, id)], Node(name, p)),
       node  |-> id]

\* A mutant of get_child: nodes are looked up by name in the whole tree.
get_child_by_name_anywhere(ns, p, name) ==
  LET hits == {n \in 2..Len(ns) : ns[n].name = name}
  IN  IF hits # {}
      THEN [nodes |-> ns, node |-> Min(hits)]
      ELSE get_child_always_new(ns, p, name)

\* A mutant of get_child: a new child is put first in childs, not last.
get_child_prepends(ns, p, name) ==
  LET hits == {i \in 1..Len(ns[p].childs) : ns[ns[p].childs[i]].name = name}
  IN  IF hits # {}
      THEN [nodes |-> ns, node |-> ns[p].childs[Min(hits)]]
      ELSE LET id == Len(ns) + 1
           IN  [nodes |-> Append([ns EXCEPT ![p].childs = <<id>> \o @],
                                 Node(name, p)),
                node  |-> id]

\* Node::get_child(name) on node p of arena ns: the first child named `name`,
\* else a new child appended last.  Returns the arena and the Node *.
get_child(ns, p, name) ==
  LET hits == {i \in 1..Len(ns[p].childs) : ns[ns[p].childs[i]].name = name}
  IN  IF hits # {}
      THEN [nodes |-> ns, node |-> ns[p].childs[Min(hits)]]
      ELSE LET id == Len(ns) + 1
           IN  [nodes |-> Append([ns EXCEPT ![p].childs = Append(@, id)],
                                 Node(name, p)),
                node  |-> id]

\* Node::insert_sample(sample) on node n of arena ns.
node_insert_sample(ns, n, sample) ==
  [ns EXCEPT ![n].num_samples = @ + 1, ![n].total_time = @ + sample]

\* A mutant of insert_sample: the sample goes to the parent of the cursor.
insert_sample_at_parent(r, time) ==
  LET p == r.nodes[r.current_node].parent
  IN  IF p = nullptr THEN r
      ELSE [r EXCEPT !.nodes = node_insert_sample(r.nodes, p, time)]

\* A mutant of insert_sample: the time is also charged to the parent node.
insert_sample_charges_parent(r, time) ==
  LET c == r.current_node
      p == r.nodes[c].parent
      own == node_insert_sample(r.nodes, c, time)
  IN  [r EXCEPT !.nodes = IF p = nullptr THEN own
                          ELSE [own EXCEPT ![p].total_time = @ + time]]

\* ProfilerRecords::insert_sample(time); r.current_node is not nullptr.
insert_sample(r, time) ==
  [r EXCEPT !.nodes = node_insert_sample(r.nodes, r.current_node, time)]

\* A mutant of push: the depth is counted, the cursor is not moved.
push_keeps_cursor(r, name) ==
  LET g == get_child(r.nodes, r.current_node, name)
  IN  [nodes |-> g.nodes, current_node |-> r.current_node,
       current_depth |-> r.current_depth + 1]

\* ProfilerRecords::push(name); r.current_node is not nullptr.
push(r, name) ==
  LET g == get_child(r.nodes, r.current_node, name)
  IN  [nodes |-> g.nodes, current_node |-> g.node,
       current_depth |-> r.current_depth + 1]

\* A mutant of pop: the depth is counted, the cursor is not moved.
pop_keeps_cursor(r) ==
  [r EXCEPT !.current_depth = @ - 1]

\* ProfilerRecords::pop(); r.current_node is not nullptr.
pop(r) ==
  [r EXCEPT !.current_node = r.nodes[r.current_node].parent,
            !.current_depth = @ - 1]

(* ------------------------------ the report ---------------------------- *)

\* Node::get_averaged(): total_time / max(num_samples, 1), as an exact quotient.
get_averaged(n) ==
  <<n.total_time, IF n.num_samples > 1 THEN n.num_samples ELSE 1>>

\* Exact quotients <<numerator, denominator>>, denominators positive.
QLess(a, b) == a[1] * b[2] < b[1] * a[2]
QSub(a, b)  == <<a[1] * b[2] - b[1] * a[2], a[2] * b[2]>>
QMul(a, k)  == <<a[1] * k, a[2]>>
QDiv(a, b)  == <<a[1] * b[2], a[2] * b[1]>>

\* The printf formats of print().
FmtName  == "%s\n"
FmtPlain == "%6.2f %s\n"
FmtPct   == "%6.2f%s %4.1f%%  %s\n"

\* total_time < 1e-6f, total_time in seconds.
Negligible(avg) == avg[1] * 1000000 < avg[2] * TicksPerSecond

\* A mutant of the unit test: total_time <= 0.1.
UsesMs_at_or_below(avg) == avg[1] * 10 <= avg[2] * TicksPerSecond

\* total_time < 0.1, total_time in seconds.
UsesMs(avg) == avg[1] * 10 < avg[2] * TicksPerSecond

\* unaccounted > total_time * 0.05
AboveFivePercent(unaccounted, avg) ==
  QLess(<<avg[1], avg[2] * 20>>, unaccounted)

\* One printed line: make_indent(indent) then printf(fmt, ...).  `value` is the
\* time argument (seconds times the scale), `pct` the percentage argument.
\* `kind` ("root", "child", "unaccounted") and `node` (the node the line is
\* printed for; for "[unaccounted]", the node being expanded) tell which
\* printf of print() wrote the line.
Line(kind, fmt, indent, value, unit, pct, name, node) ==
  [kind |-> kind, fmt |-> fmt, indent |-> indent, value |-> value,
   unit |-> unit, pct |-> pct, name |-> name, node |-> node]

Seconds(q) == <<q[1], q[2] * TicksPerSecond>>

RECURSIVE print(_, _, _)
RECURSIVE print_plain(_, _, _, _)
RECURSIVE print_percent(_, _, _, _, _)

\* A mutant of the loop for a node of negligible average: the children are
\* printed by the loop for a node of non-negligible average.
print_plain_as_percent(ns, node, depth, i) ==
  print_percent(ns, node, depth, i, get_averaged(ns[node]))

\* The loop of print() over the children of a node of negligible average,
\* from child i on.
print_plain(ns, node, depth, i) ==
  IF i > Len(ns[node].childs) THEN <<>>
  ELSE LET ch == ns[node].childs[i]
           child_time == get_averaged(ns[ch])
       IN  <<Line("child", FmtPlain, depth + 1, Seconds(child_time), "", <<0, 1>>,
                  ns[ch].name, ch)>>
           \o print(ns, ch, depth + 1)
           \o print_plain(ns, node, depth, i + 1)

\* The unit and scale print() picks for the lines under a node.
Unit(total_time)  == IF UsesMs(total_time) THEN "ms" ELSE "s"
Scale(total_time) == IF UsesMs(total_time) THEN 1000 ELSE 1

\* A mutant of the "[unaccounted]" line: childs.empty() is not tested.
unaccounted_line_without_child_test(ns, node, depth, unaccounted) ==
  LET total_time == get_averaged(ns[node])
  IN  IF AboveFivePercent(unaccounted, total_time)
      THEN <<Line("unaccounted", FmtPct, depth + 1,
                  QMul(Seconds(unaccounted), Scale(total_time)),
                  Unit(total_time),
                  QDiv(QMul(unaccounted, 100), total_time),
                  "[unaccounted]", node)>>
      ELSE <<>>

\* The end of print(): the "[unaccounted]" line of a node of non-negligible
\* average, given the remainder left by the loop over its children.
unaccounted_line(ns, node, depth, unaccounted) ==
  LET total_time == get_averaged(ns[node])
  IN  IF ns[node].childs # <<>> /\ AboveFivePercent(unaccounted, total_time)
      THEN <<Line("unaccounted", FmtPct, depth + 1,
                  QMul(Seconds(unaccounted), Scale(total_time)),
                  Unit(total_time),
                  QDiv(QMul(unaccounted, 100), total_time),
                  "[unaccounted]", node)>>
      ELSE <<>>

\* The loop of print() over the children of a node of non-negligible average,
\* from child i on, then the "[unaccounted]" line.
print_percent(ns, node, depth, i, unaccounted) ==
  LET total_time == get_averaged(ns[node])
  IN  IF i > Len(ns[node].childs)
      THEN unaccounted_line(ns, node, depth, unaccounted)
      ELSE LET ch == ns[node].childs[i]
               child_time == get_averaged(ns[ch])
           IN  <<Line("child", FmtPct, depth + 1,
                      QMul(Seconds(child_time), Scale(total_time)),
                      Unit(total_time),
                      QDiv(QMul(child_time, 100), total_time),
                      ns[ch].name, ch)>>
               \o print(ns, ch, depth + 1)
               \o print_percent(ns, node, depth, i + 1,
                                QSub(unaccounted, child_time))

\* A mutant of print(): the name line is written for every node, not only for
\* the root.
print_name_at_every_depth(ns, node, depth) ==
  LET total_time == get_averaged(ns[node])
  IN  <<Line("root", FmtName, depth, <<0, 1>>, "", <<0, 1>>, ns[node].name, node)>>
      \o (IF Negligible(total_time)
          THEN print_plain(ns, node, depth, 1)
          ELSE print_percent(ns, node, depth, 1, total_time))

\* ProfilerRecords::print(node, depth)
print(ns, node, depth) ==
  LET total_time == get_averaged(ns[node])
  IN  (IF depth = 0
       THEN <<Line("root", FmtName, 0, <<0, 1>>, "", <<0, 1>>, ns[node].name, node)>>
       ELSE <<>>)
      \o (IF Negligible(total_time)
          THEN print_plain(ns, node, depth, 1)
          ELSE print_percent(ns, node, depth, 1, total_time))

(* ------------------------------ state --------------------------------- *)

VARIABLES
  nodes,          \* arena of all Node objects; nodes[RootId] is *root
  current_node,   \* ProfilerRecords::current_node (a Node * or nullptr)
  current_depth,  \* ProfilerRecords::current_depth
  regions,        \* the live Profiler objects, innermost scope last
  now,            \* the latest reading of Time::get_time()
  fault,          \* "none", "assert" (assert_info failed), "segv" (the process
                  \* died on a null dereference) or "ub" (it went on after one)
  output,         \* the lines written by the step just taken (by print())
  opened,         \* history: one entry per Profiler ever constructed
  pushes,         \* history: number of push() calls executed
  pops,           \* history: number of pop() calls executed
  stop_calls      \* history: number of explicit stop() calls

vars == <<nodes, current_node, current_depth, regions, now, fault, output,
          opened, pushes, pops, stop_calls>>

\* The ProfilerRecords singleton as one value.
Records ==
  [nodes |-> nodes, current_node |-> current_node,
   current_depth |-> current_depth]

\* Time::get_time(): a reading no earlier than the previous one.
get_time == {t \in Times : t >= now}

(* ------------------------------ Profiler ------------------------------ *)

\* Profiler::Profiler(name) with get_time() = t; r.current_node is not nullptr.
Profiler(r, name, t) ==
  [rec  |-> push(r, name),
   prof |-> [start_time |-> t, name |-> name, stopped |-> FALSE]]

\* A mutant of stop: pop first, then insert the sample.
stop_pop_first(r, p, t) ==
  IF p.stopped
  THEN [rec |-> r, prof |-> p, failed |-> TRUE]
  ELSE LET q == pop(r)
       IN  [rec  |-> IF q.current_node = nullptr THEN q
                     ELSE insert_sample(q, t - p.start_time),
            prof |-> p, failed |-> FALSE]

\* A mutant of stop: the sample holds the stop time, not the elapsed time.
stop_absolute_time(r, p, t) ==
  IF p.stopped
  THEN [rec |-> r, prof |-> p, failed |-> TRUE]
  ELSE [rec |-> pop(insert_sample(r, t)), prof |-> p, failed |-> FALSE]

\* Profiler::stop() with get_time() = t; r.current_node is not nullptr.
\* `stopped` is read by the assertion and is not assigned.
stop(r, p, t) ==
  IF p.stopped
  THEN [rec |-> r, prof |-> p, failed |-> TRUE]
  ELSE [rec  |-> pop(insert_sample(r, t - p.start_time)),
        prof |-> p, failed |-> FALSE]

\* Dereferencing current_node = nullptr is undefined: the process dies at once
\* ("segv"), or it goes on with the cursor holding whatever was read ("ub");
\* nothing is known of what it does after that, so neither outcome is followed
\* further.
NullDeref(r, p, step) ==
  {[rec |-> r, prof |-> p, fault |-> "segv"]} \cup
  {[rec |-> [r EXCEPT !.current_node = c, !.current_depth = @ + step],
    prof |-> p, fault |-> "ub"] : c \in 0..Len(r.nodes)}

\* The outcomes of p.stop() on records r when the fault flag is f.
StopOutcomes(r, p, t, f) ==
  IF ~p.stopped /\ r.current_node = nullptr
  THEN NullDeref(r, p, -1)
  ELSE LET s == stop(r, p, t)
       IN  {[rec |-> s.rec, prof |-> s.prof,
             fault |-> IF s.failed THEN "assert" ELSE f]}

\* A mutant of the destructor: it never calls stop().
dtor_without_stop(r, p, t, f) ==
  {[rec |-> r, prof |-> p, fault |-> f]}

\* Profiler::~Profiler()
Profiler_dtor(r, p, t, f) ==
  IF ~p.stopped THEN StopOutcomes(r, p, t, f)
  ELSE {[rec |-> r, prof |-> p, fault |-> f]}

(* ------------------------------ history ------------------------------- *)

\* The node whose num_samples differs between two arenas, nullptr if none.
Landed(before, after) ==
  LET ch == {n \in 1..Len(before) : after[n].num_samples # before[n].num_samples}
  IN  IF ch = {} THEN nullptr ELSE CHOOSE n \in ch : TRUE

\* The history entry of a termination of region k: where the sample landed,
\* the elapsed time added, the pops done.
NoteTermination(h, k, before, after, explicit) ==
  LET n == Landed(before.nodes, after.nodes)
  IN  [h EXCEPT
        ![k].landed  = IF n = nullptr THEN @ ELSE Append(@, n),
        ![k].elapsed = IF n = nullptr THEN @
                       ELSE Append(@, after.nodes[n].total_time
                                      - before.nodes[n].total_time),
        ![k].popped  = @ + (before.current_depth - after.current_depth),
        ![k].stop_calls = IF explicit THEN @ + 1 ELSE @]

(* ------------------------------ actions ------------------------------- *)

Init ==
  /\ nodes = <<Node(RootName, nullptr)>>
  /\ current_node = RootId
  /\ current_depth = 0
  /\ regions = <<>>
  /\ now = 0
  /\ fault = "none"
  /\ output = <<>>
  /\ opened = <<>>
  /\ pushes = 0
  /\ pops = 0
  /\ stop_calls = 0

Running == fault = "none"

\* The threads of control that may use the profiler, and the one whose nested
\* scopes drive it in single-threaded use.
Threads == {"main", "worker"}
MainThread == "main"

\* The innermost live Profiler of thread th: its index in regions, 0 if none.
Innermost(th) ==
  LET mine == {i \in 1..Len(regions) : regions[i].thread = th}
  IN  IF mine = {} THEN 0 ELSE CHOOSE i \in mine : \A j \in mine : j <= i

\* The sequence q without its element i.
Without(q, i) == SubSeq(q, 1, i - 1) \o SubSeq(q, i + 1, Len(q))

\* A call site of thread th constructs a Profiler named `name` in a new
\* innermost scope of that thread.
BeginBy(th, name, t) ==
  /\ Running
  /\ pushes < MaxPushes
  /\ t \in get_time
  /\ LET outs == IF current_node = nullptr
                 THEN NullDeref(Records,
                        [start_time |-> t, name |-> name, stopped |-> FALSE], 1)
                 ELSE LET c == Profiler(Records, name, t)
                      IN  {[rec |-> c.rec, prof |-> c.prof, fault |-> fault]}
     IN  \E o \in outs :
           /\ nodes' = o.rec.nodes
           /\ current_node' = o.rec.current_node
           /\ current_depth' = o.rec.current_depth
           /\ fault' = o.fault
           /\ regions' = IF o.fault = "segv" THEN regions
                         ELSE Append(regions,
                                [start_time |-> o.prof.start_time,
                                 name |-> o.prof.name,
                                 stopped |-> o.prof.stopped,
                                 id |-> Len(opened) + 1,
                                 thread |-> th])
           /\ opened' = IF o.fault = "segv" THEN opened
                        ELSE Append(opened,
                               [node |-> IF o.fault = fault
                                         THEN o.rec.current_node ELSE nullptr,
                                parent |-> current_node,
                                name |-> name,
                                created |-> Len(o.rec.nodes) > Len(nodes),
                                landed |-> <<>>, elapsed |-> <<>>,
                                popped |-> 0, stop_calls |-> 0,
                                released |-> FALSE, thread |-> th])
           /\ pushes' = pushes + 1
  /\ now' = t
  /\ output' = <<>>
  /\ UNCHANGED <<pops, stop_calls>>

\* The code of thread th calls stop() on its innermost live Profiler.
StopBy(th, t) ==
  /\ Running
  /\ Innermost(th) # 0
  /\ stop_calls < MaxStopCalls
  /\ t \in get_time
  /\ LET i == Innermost(th)
         p == regions[i]
     IN  \E o \in StopOutcomes(Records,
                    [start_time |-> p.start_time, name |-> p.name,
                     stopped |-> p.stopped], t, fault) :
           /\ nodes' = o.rec.nodes
           /\ current_node' = o.rec.current_node
           /\ current_depth' = o.rec.current_depth
           /\ fault' = o.fault
           /\ regions' = [regions EXCEPT ![i].stopped = o.prof.stopped]
           /\ opened' = NoteTermination(opened, p.id, Records, o.rec, TRUE)
           /\ pops' = pops + (current_depth - o.rec.current_depth)
  /\ now' = t
  /\ stop_calls' = stop_calls + 1
  /\ output' = <<>>
  /\ UNCHANGED pushes

\* The innermost scope of thread th ends: its Profiler is destroyed.
ScopeExitBy(th, t) ==
  /\ Running
  /\ Innermost(th) # 0
  /\ t \in get_time
  /\ LET i == Innermost(th)
         p == regions[i]
     IN  \E o \in Profiler_dtor(Records,
                    [start_time |-> p.start_time, name |-> p.name,
                     stopped |-> p.stopped], t, fault) :
           /\ nodes' = o.rec.nodes
           /\ current_node' = o.rec.current_node
           /\ current_depth' = o.rec.current_depth
           /\ fault' = o.fault
           /\ regions' = IF o.fault = "segv" THEN regions
                         ELSE Without(regions, i)
           /\ opened' = [NoteTermination(opened, p.id, Records, o.rec, FALSE)
                           EXCEPT ![p.id].released = (o.fault # "segv")]
           /\ pops' = pops + (current_depth - o.rec.current_depth)
  /\ now' = t
  /\ output' = <<>>
  /\ UNCHANGED <<pushes, stop_calls>>

\* Single-threaded use: every region belongs to the one thread of control.
Begin(name, t) == BeginBy(MainThread, name, t)
Stop(t)        == StopBy(MainThread, t)
ScopeExit(t)   == ScopeExitBy(MainThread, t)

\* A mutant of the report: printing starts by moving the cursor to the root.
Report_resets_cursor ==
  /\ Running
  /\ output' = print(nodes, RootId, 0)
  /\ current_node' = RootId
  /\ current_depth' = 0
  /\ UNCHANGED <<nodes, regions, now, fault, opened, pushes, pops, stop_calls>>

\* The application asks for the report: ProfilerRecords::print().
Report ==
  /\ Running
  /\ output' = print(nodes, RootId, 0)
  /\ UNCHANGED <<nodes, current_node, current_depth, regions, now, fault,
                 opened, pushes, pops, stop_calls>>

Next ==
  \/ \E name \in Names, t \in Times : Begin(name, t)
  \/ \E t \in Times : Stop(t)
  \/ \E t \in Times : ScopeExit(t)
  \/ Report

Spec == Init /\ [][Next]_vars

\* Two threads of control use the one ProfilerRecords instance without any
\* synchronization, each with properly nested scopes of its own.  Whole
\* operations interleave here; the interleavings inside one operation, and the
\* data race itself, can only add outcomes.
NextThreads ==
  \/ \E th \in Threads, name \in Names, t \in Times : BeginBy(th, name, t)
  \/ \E th \in Threads, t \in Times : StopBy(th, t)
  \/ \E th \in Threads, t \in Times : ScopeExitBy(th, t)

SpecThreads == Init /\ [][NextThreads]_vars

(* ------------------------------ helpers for the properties ------------ *)

\* Equality of exact quotients.
QEq(a, b) == a[1] * b[2] = b[1] * a[2]

Live == {regions[i].id : i \in 1..Len(regions)}

Ids == 1..Len(opened)

RECURSIVE SumOver(_, _)
\* The sum of f[x] over the finite set S.
SumOver(S, f) ==
  IF S = {} THEN 0
  ELSE LET x == CHOOSE y \in S : TRUE IN f[x] + SumOver(S \ {x}, f)

RECURSIVE Path(_)
\* The call path of node n: the names from below the root down to n.
Path(n) ==
  IF n = RootId THEN <<>> ELSE Append(Path(nodes[n].parent), nodes[n].name)

(* ------------------------------ C1 ------------------------------------ *)

\* C1: the first stop() of a region succeeds and leaves the region Stopped;
\* a second stop() on it fails the assertion and does not insert or pop again.
C1_SecondStopFails ==
  \A i \in 1..Len(regions) :
    LET h == opened[regions[i].id]
    IN  /\ h.stop_calls = 1 => fault # "assert" /\ regions[i].stopped
        /\ h.stop_calls >= 2 =>
             fault = "assert" /\ Len(h.landed) <= 1 /\ h.popped <= 1

(* ------------------------------ C2 ------------------------------------ *)

\* C2: over the lifetime of a region (construction, zero or one explicit
\* stop(), scope exit) at most one sample is inserted and at most one pop is
\* done for it, and once it is released its push is matched by exactly one pop.
C2_TerminationAtMostOnce ==
  \A k \in Ids :
    opened[k].stop_calls <= 1 /\ fault = "none" =>
      /\ Len(opened[k].landed) <= 1
      /\ opened[k].popped <= 1
      /\ opened[k].released => opened[k].popped = 1

(* ------------------------------ C3 ------------------------------------ *)

\* C3: a region released without any explicit stop() has had exactly one
\* sample inserted and exactly one pop done for it; and in a run without
\* explicit stop() calls the pushes exceed the pops by the number of live
\* regions, so they balance, with the cursor at the root, once all regions
\* are released.
C3_ScopeExitTerminatesOnce ==
  /\ \A k \in Ids :
       opened[k].released /\ opened[k].stop_calls = 0 /\ fault = "none" =>
         Len(opened[k].landed) = 1 /\ opened[k].popped = 1
  /\ stop_calls = 0 =>
       /\ fault = "none"
       /\ pushes - pops = Len(regions)
       /\ regions = <<>> => pushes = pops /\ current_node = RootId

\* Two regions were released by scope exit alone, the inner one first.
C3_Witness ==
  /\ stop_calls = 0
  /\ regions = <<>>
  /\ \E k1, k2 \in Ids :
       /\ k1 < k2
       /\ opened[k1].released /\ opened[k2].released
       /\ opened[k2].parent = opened[k1].node

(* ------------------------------ C4 ------------------------------------ *)

\* The live regions that have not been terminated yet.
Open == {k \in Live : opened[k].stop_calls = 0}

\* C4: the cursor is at the root exactly when no region is open.
C4_CursorAtRootIffNoneOpen ==
  fault = "none" => (current_node = RootId <=> Open = {})

(* ------------------------------ C5 ------------------------------------ *)

\* C5: every sample a region's termination records is added to the node that
\* the region's construction pushed.
C5_SampleLandsOnPushedNode ==
  \A k \in Ids :
    \A j \in 1..Len(opened[k].landed) : opened[k].landed[j] = opened[k].node

(* ------------------------------ C6 ------------------------------------ *)

\* The regions constructed on node n.
EnteredAt(n) == {k \in Ids : opened[k].node = n}

\* C6: once every region is released, a node entered n times holds 1 + n
\* samples and the sum of the n elapsed times measured by those regions, and
\* it is the only child of its parent with its name.
C6_SamplesAccumulate ==
  regions = <<>> /\ fault = "none" =>
    \A n \in 2..Len(nodes) :
      /\ nodes[n].num_samples = 1 + Cardinality(EnteredAt(n))
      /\ nodes[n].total_time =
           SumOver(EnteredAt(n), [k \in EnteredAt(n) |-> opened[k].elapsed[1]])
      /\ Cardinality({i \in 1..Len(nodes[nodes[n].parent].childs) :
            nodes[nodes[nodes[n].parent].childs[i]].name = nodes[n].name}) = 1

(* ------------------------------ C7 ------------------------------------ *)

\* C7: get_child is an idempotent lookup.  On every node p and name: a miss
\* appends one new child with total_time 0 and num_samples 1 and changes
\* nothing else; a hit returns the child of that name and changes nothing; and
\* asking again, also after another name was looked up under p, returns the
\* same node and changes nothing.  In the run itself, a later push of the same
\* name under the same node reaches the node of the earlier push.
C7_GetChildIdempotent ==
  /\ \A p \in 1..Len(nodes), name \in Names :
       LET g1 == get_child(nodes, p, name)
           had == \E i \in 1..Len(nodes[p].childs) :
                    nodes[nodes[p].childs[i]].name = name
       IN  /\ had => /\ g1.nodes = nodes
                     /\ g1.node \in 2..Len(nodes)
                     /\ nodes[g1.node].name = name
                     /\ nodes[g1.node].parent = p
           /\ ~had => /\ g1.node = Len(nodes) + 1
                      /\ g1.nodes =
                           Append([nodes EXCEPT ![p].childs = Append(@, g1.node)],
                                  [name |-> name, parent |-> p, childs |-> <<>>,
                                   total_time |-> 0, num_samples |-> 1])
           /\ get_child(g1.nodes, p, name) = g1
           /\ \A other \in Names \ {name} :
                LET g2 == get_child(g1.nodes, p, other)
                    g3 == get_child(g2.nodes, p, name)
                IN  g3.node = g1.node /\ g3.nodes = g2.nodes
  /\ \A k1, k2 \in Ids :
       /\ k1 < k2
       /\ opened[k1].node # nullptr /\ opened[k2].node # nullptr
       /\ opened[k1].parent = opened[k2].parent
       /\ opened[k1].name = opened[k2].name
       => opened[k2].node = opened[k1].node /\ ~opened[k2].created

\* In a run without explicit stop(): a name was pushed under a node, then
\* another name created a sibling, then the first name was pushed under that
\* node again.
C7_Witness ==
  \E k1, k2, k3 \in Ids :
    /\ stop_calls = 0
    /\ k1 < k2 /\ k2 < k3
    /\ opened[k1].created /\ opened[k2].created /\ ~opened[k3].created
    /\ opened[k1].parent = opened[k2].parent
    /\ opened[k3].parent = opened[k1].parent
    /\ opened[k1].name # opened[k2].name
    /\ opened[k3].name = opened[k1].name
    /\ opened[k3].node = opened[k1].node

(* ------------------------------ C8 ------------------------------------ *)

\* The history entries of constructions that completed.
Pushed == {k \in Ids : opened[k].node # nullptr}

\* C8: nodes are identified by call path.  Sibling names are pairwise
\* distinct, no two nodes have the same call path, a region's node lies at the
\* path of the node it was opened under extended by the region's name, and
\* two regions use the same node exactly when those paths are equal.
C8_NodesByCallPath ==
  LET path == [n \in 1..Len(nodes) |-> Path(n)]
      opened_at == [k \in Pushed |->
                      Append(path[opened[k].parent], opened[k].name)]
  IN  /\ \A p \in 1..Len(nodes) :
           \A i, j \in 1..Len(nodes[p].childs) :
             i # j => nodes[nodes[p].childs[i]].name
                        # nodes[nodes[p].childs[j]].name
      /\ \A n, m \in 1..Len(nodes) : path[n] = path[m] => n = m
      /\ \A k \in Pushed : path[opened[k].node] = opened_at[k]
      /\ \A k1, k2 \in Pushed :
           opened_at[k1] = opened_at[k2] <=> opened[k1].node = opened[k2].node

\* In a run without explicit stop(): the same name was opened under two
\* different paths, and each of the two nodes has received a sample of its own.
C8_Witness ==
  \E k1, k2 \in Pushed :
    /\ stop_calls = 0
    /\ opened[k1].name = opened[k2].name
    /\ opened[k1].node # opened[k2].node
    /\ opened[k1].landed # <<>> /\ opened[k1].landed[1] = opened[k1].node
    /\ opened[k2].landed # <<>> /\ opened[k2].landed[1] = opened[k2].node
    /\ nodes[opened[k1].node].total_time # nodes[opened[k2].node].total_time

(* ------------------------------ C9 ------------------------------------ *)

RECURSIVE Ancestors(_)
\* The proper ancestors of node n.
Ancestors(n) ==
  IF n = RootId THEN {}
  ELSE {nodes[n].parent} \cup Ancestors(nodes[n].parent)

\* The averaged total of node x, total_time / num_samples, and whether it is
\* below 1e-6 s.
Avg(x) == <<nodes[x].total_time, nodes[x].num_samples>>
BelowThreshold(x) ==
  nodes[x].total_time * 1000000 < nodes[x].num_samples * TicksPerSecond

OutIdx == 1..Len(output)

\* Line l of the report lies in the subtree of node x: it lists a proper
\* descendant of x, or it is the unaccounted line of x or of a descendant.
InSubtree(x, l) ==
  \/ l.kind = "child" /\ x \in Ancestors(l.node)
  \/ l.kind = "unaccounted" /\ (l.node = x \/ x \in Ancestors(l.node))

\* C9 as stated, for the reports of runs without explicit stop() calls: under
\* a node of negligible average no line of the whole subtree carries a
\* percentage.
C9_NoPercentInNegligibleSubtree ==
  stop_calls = 0 =>
    \A x \in 1..Len(nodes) :
      BelowThreshold(x) =>
        \A i \in OutIdx : InSubtree(x, output[i]) => output[i].fmt = FmtPlain

\* C9 (amended): every child of a node of negligible average is listed once,
\* with its averaged time in seconds and no percentage, and such a node gets
\* no unaccounted line; a line listing a node carries a percentage exactly
\* when the node it is listed under has a non-negligible average, whatever
\* the averages further up.
C9_PlainUnderNegligibleParent ==
  output # <<>> =>
    /\ \A x \in 1..Len(nodes) :
         BelowThreshold(x) =>
           /\ \A j \in 1..Len(nodes[x].childs) :
                LET c == nodes[x].childs[j]
                    ls == {i \in OutIdx : output[i].kind = "child"
                                          /\ output[i].node = c}
                IN  /\ Cardinality(ls) = 1
                    /\ \A i \in ls :
                         /\ output[i].fmt = FmtPlain
                         /\ output[i].unit = ""
                         /\ output[i].name = nodes[c].name
                         /\ QEq(output[i].value, Seconds(Avg(c)))
           /\ ~\E i \in OutIdx : output[i].kind = "unaccounted"
                                 /\ output[i].node = x
    /\ \A i \in OutIdx :
         /\ output[i].kind = "child" =>
              (output[i].fmt = FmtPct
                 <=> ~BelowThreshold(nodes[output[i].node].parent))
         /\ output[i].kind = "child" => output[i].fmt \in {FmtPct, FmtPlain}
         /\ output[i].kind = "unaccounted" => output[i].fmt = FmtPct

\* In a run without explicit stop(): a report with a percentage line below
\* the (negligible) root, and a child listed without percentage under a negligible node that lies below a
\* non-negligible one.
C9_Witness ==
  /\ stop_calls = 0
  /\ \E i \in OutIdx :
       /\ output[i].kind = "child" /\ output[i].fmt = FmtPct
       /\ BelowThreshold(RootId)
  /\ \E i \in OutIdx :
       /\ output[i].kind = "child" /\ output[i].fmt = FmtPlain
       /\ nodes[output[i].node].parent # RootId
       /\ ~BelowThreshold(nodes[nodes[output[i].node].parent].parent)

(* ------------------------------ C10 ----------------------------------- *)

RECURSIVE ChildAvgSum(_, _)
\* The sum of the averaged times of the children of x from child i on.
ChildAvgSum(x, i) ==
  IF i > Len(nodes[x].childs) THEN <<0, 1>>
  ELSE LET a == Avg(nodes[x].childs[i])
           r == ChildAvgSum(x, i + 1)
       IN  <<a[1] * r[2] + r[1] * a[2], a[2] * r[2]>>

\* T minus the sum of the children's averaged times.
Remainder(x) == QSub(Avg(x), ChildAvgSum(x, 1))

\* The lines of the report that lie strictly below node x.
Below(x) == {i \in OutIdx : output[i].kind # "root"
                            /\ x \in Ancestors(output[i].node)}

\* C10: a node of non-negligible average T gets one "[unaccounted]" line, next
\* after the lines of its children's subtrees and indented like its children,
\* exactly when it has a child and T minus the children's averages exceeds 5%
\* of T; the line carries that remainder in the unit of the line and its
\* percentage of T.  A node without children never gets one.
C10_UnaccountedLine ==
  output # <<>> =>
    \A x \in 1..Len(nodes) :
      LET ul == {i \in OutIdx : output[i].kind = "unaccounted"
                                /\ output[i].node = x}
      IN  /\ Cardinality(ul) <= 1
          /\ ~BelowThreshold(x) =>
               (ul # {} <=>
                  /\ nodes[x].childs # <<>>
                  /\ 20 * Remainder(x)[1] * Avg(x)[2]
                       > Avg(x)[1] * Remainder(x)[2])
          /\ nodes[x].childs = <<>> => ul = {}
          /\ \A i \in ul :
               /\ output[i].name = "[unaccounted]"
               /\ \A j \in Below(x) : j < i
               /\ i - 1 \in Below(x)
               /\ \A j \in OutIdx :
                    output[j].kind = "child" /\ nodes[output[j].node].parent = x
                    => output[j].indent = output[i].indent
               /\ QEq(output[i].value,
                      QMul(Seconds(Remainder(x)),
                           IF output[i].unit = "ms" THEN 1000 ELSE 1))
               /\ output[i].unit \in {"s", "ms"}
               /\ QEq(output[i].pct, QDiv(QMul(Remainder(x), 100), Avg(x)))

\* In a run without explicit stop(): a report with an unaccounted line for a
\* remainder that is part of T, not all of it.
C10_Witness ==
  \E i \in OutIdx :
    /\ stop_calls = 0
    /\ output[i].kind = "unaccounted"
    /\ Remainder(output[i].node)[1] > 0
    /\ ~QEq(Remainder(output[i].node), Avg(output[i].node))


(* ------------------------------ C11 ----------------------------------- *)

\* T < 0.1 s for the averaged total T of node x.
BelowTenth(x) == nodes[x].total_time * 10 < nodes[x].num_samples * TicksPerSecond

\* The node under which line l of the report is listed.
ListedUnder(l) == IF l.kind = "unaccounted" THEN l.node ELSE nodes[l.node].parent

\* C11: under a node of non-negligible average T every child line and the
\* unaccounted line have unit "ms" and a value scaled by 1000 if T < 0.1 s,
\* and unit "s" and an unscaled value otherwise (so "s" at T = 0.10 s); a
\* child's percentage is its averaged time times 100 divided by T.
C11_UnitScaleAndPercentage ==
  output # <<>> =>
    \A i \in OutIdx :
      LET l == output[i] IN
      l.kind # "root" /\ ~BelowThreshold(ListedUnder(l)) =>
        LET x == ListedUnder(l)
            shown == IF l.kind = "child" THEN Avg(l.node) ELSE Remainder(x)
        IN  /\ l.unit = IF BelowTenth(x) THEN "ms" ELSE "s"
            /\ QEq(l.value,
                   QMul(Seconds(shown), IF BelowTenth(x) THEN 1000 ELSE 1))
            /\ QEq(l.pct, <<shown[1] * 100 * Avg(x)[2], shown[2] * Avg(x)[1]>>)

\* In a run without explicit stop(): a report lists a child under a node whose
\* averaged total is exactly 0.10 s, in seconds, with a percentage that is not
\* the child's share of the whole run.
C11_Witness ==
  /\ stop_calls = 0
  /\ \E i \in OutIdx :
       /\ output[i].kind = "child"
       /\ output[i].unit = "s"
       /\ LET x == nodes[output[i].node].parent
          IN  /\ x # RootId
              /\ nodes[x].total_time * 10 = nodes[x].num_samples * TicksPerSecond
              /\ nodes[output[i].node].total_time > 0


(* ------------------------------ C12 ----------------------------------- *)

\* A termination has added its sample to a node other than the one its region
\* pushed.
Misplaced ==
  \E k \in Ids :
    \E j \in 1..Len(opened[k].landed) : opened[k].landed[j] # opened[k].node

\* The threads that have constructed a region so far.
ActiveThreads == {opened[k].thread : k \in Ids}

\* C12: a sample lands on a node its region did not push only when two
\* threads have used the tree; runs of a single thread never get there.
C12_CorruptionNeedsTwoThreads ==
  Misplaced => Cardinality(ActiveThreads) = 2

\* Two threads, neither calling stop() explicitly, each with properly nested
\* scopes: a sample has landed on a node its region did not push.
C12_Witness ==
  /\ stop_calls = 0
  /\ fault = "none"
  /\ Cardinality(ActiveThreads) = 2
  /\ Misplaced


(* ------------------------------ C13 ----------------------------------- *)

\* C13: in single-threaded use of the public operations in strict nesting
\* order pop never runs with the cursor at the root: the cursor always refers
\* to a node of the tree, and no insert_sample, push or pop acts on a missing
\* node.
C13_CursorAlwaysANode ==
  /\ current_node \in 1..Len(nodes)
  /\ fault = "none"

(* ------------------------------ C14 ----------------------------------- *)

\* C14: through the region interface the root never receives a sample: its
\* total_time stays 0 and its num_samples stays 1.
C14_RootNeverSampled ==
  /\ nodes[RootId].total_time = 0
  /\ nodes[RootId].num_samples = 1

(* ------------------------------ C15 ----------------------------------- *)

\* C15: depth equals pushes minus pops, equals the number of parent links
\* from the cursor up to the root, is never negative, and is 0 exactly when
\* the cursor is the root.
C15_DepthMirrorsCursor ==
  /\ current_depth = pushes - pops
  /\ current_node # nullptr
  /\ current_depth = Len(Path(current_node))
  /\ current_depth >= 0
  /\ current_depth = 0 <=> current_node = RootId


(* ------------------------------ C16 ----------------------------------- *)

\* The samples of the run that were inserted at node n, as pairs of a region
\* and the index of one of its terminations.
SamplesAt(n) ==
  UNION {{<<k, j>> : j \in {i \in 1..Len(opened[k].landed) :
                                opened[k].landed[i] = n}} : k \in Ids}

\* C16: insert_sample(elapsed) adds elapsed to total_time and 1 to num_samples
\* of the cursor node only; every other node, the set of nodes, the cursor and
\* the depth are unchanged.  So each node's counters are those of the samples
\* inserted at it: the duration of a nested region is neither added to nor
\* subtracted from an ancestor's counters.
C16_InsertSampleFrame ==
  /\ current_node # nullptr =>
       \A e \in Times :
         LET r == insert_sample(Records, e)
         IN  /\ Len(r.nodes) = Len(nodes)
             /\ r.current_node = current_node
             /\ r.current_depth = current_depth
             /\ \A n \in 1..Len(nodes) :
                  r.nodes[n] =
                    IF n = current_node
                    THEN [nodes[n] EXCEPT !.total_time = @ + e,
                                          !.num_samples = @ + 1]
                    ELSE nodes[n]
  /\ \A n \in 1..Len(nodes) :
       LET at == SamplesAt(n)
           el == [p \in at |-> opened[p[1]].elapsed[p[2]]]
       IN  /\ nodes[n].num_samples = 1 + Cardinality(at)
           /\ nodes[n].total_time = SumOver(at, el)

\* A nested region ended after 0.20 s while its parent region is still open:
\* the nested node holds the sample, the parent's node holds none.
C16_Witness ==
  /\ stop_calls = 0
  /\ fault = "none"
  /\ \E k \in Ids :
       LET n == opened[k].node
       IN  /\ opened[k].released
           /\ opened[k].landed = <<n>>
           /\ opened[k].elapsed = <<20>>
           /\ nodes[n].total_time = 20
           /\ nodes[n].num_samples = 2
           /\ nodes[n].parent # RootId
           /\ nodes[nodes[n].parent].total_time = 0
           /\ nodes[nodes[n].parent].num_samples = 1
           /\ current_node = nodes[n].parent


(* ------------------------------ C17 ----------------------------------- *)

\* C17: every node has num_samples >= 1, namely 1 from its creation plus the
\* number of samples inserted at it, so max(num_samples, 1) is num_samples and
\* the average of every node is total_time / num_samples.
C17_AverageIsTotalOverSamples ==
  \A n \in 1..Len(nodes) :
    /\ nodes[n].num_samples >= 1
    /\ nodes[n].num_samples = 1 + Cardinality(SamplesAt(n))
    /\ get_averaged(nodes[n]) = <<nodes[n].total_time, nodes[n].num_samples>>

\* A freshly created node with no sample yet, next to a node that received
\* two samples.
C17_Witness ==
  /\ stop_calls = 0
  /\ fault = "none"
  /\ \E n, m \in 1..Len(nodes) :
       /\ n # RootId
       /\ nodes[n].num_samples = 1
       /\ Cardinality(SamplesAt(n)) = 0
       /\ nodes[m].num_samples = 3
       /\ nodes[m].total_time = 20
       /\ get_averaged(nodes[m]) = <<20, 3>>


(* ------------------------------ C18 ----------------------------------- *)

RECURSIVE PreOrder(_)
RECURSIVE PreOrderFrom(_, _)
\* The nodes of the subtree of n in depth-first pre-order: n, then the
\* subtrees of its children in the order of its childs sequence.
PreOrder(n) == <<n>> \o PreOrderFrom(n, 1)
PreOrderFrom(n, i) ==
  IF i > Len(nodes[n].childs) THEN <<>>
  ELSE PreOrder(nodes[n].childs[i]) \o PreOrderFrom(n, i + 1)

\* The nodes the printed lines are written for, in the order of the lines,
\* the "[unaccounted]" lines left out.
PrintedNodes ==
  LET own == SelectSeq(output, LAMBDA l : l.kind # "unaccounted")
  IN  [i \in 1..Len(own) |-> own[i].node]

\* C18: the report is the depth-first pre-order of the tree from the root:
\* the root's name comes first, once, with no indentation; every other node
\* has exactly one line, right after its parent's line or after the complete
\* subtree of its preceding sibling; siblings come in the order they were
\* first seen; the line of a node at tree depth d, and the "[unaccounted]"
\* line of its parent, are indented by d levels.
C18_PreOrderReport ==
  output # <<>> =>
    /\ PrintedNodes = PreOrder(RootId)
    /\ output[1] = Line("root", FmtName, 0, <<0, 1>>, "", <<0, 1>>,
                        nodes[RootId].name, RootId)
    /\ \A i \in OutIdx :
         LET l == output[i]
         IN  /\ l.kind = "root" => i = 1
             /\ l.kind = "child" =>
                  /\ l.node # RootId
                  /\ l.name = nodes[l.node].name
                  /\ l.indent = Len(Path(l.node))
             /\ l.kind = "unaccounted" => l.indent = Len(Path(l.node)) + 1
             /\ \A j \in OutIdx :
                  (/\ i < j
                   /\ l.kind = "child"
                   /\ output[j].kind = "child"
                   /\ nodes[l.node].parent = nodes[output[j].node].parent)
                  => l.node < output[j].node

\* A report of the tree root -> A -> B, root -> B: the line of the second
\* child of the root follows the complete subtree of the first, which holds a
\* line at depth 2 and an "[unaccounted]" line at that indentation.
C18_Witness ==
  /\ stop_calls = 0
  /\ Len(output) = 5
  /\ output[2].kind = "child" /\ output[2].indent = 1
  /\ output[3].kind = "child" /\ output[3].indent = 2
  /\ nodes[output[3].node].parent = output[2].node
  /\ output[4].kind = "unaccounted" /\ output[4].indent = 2
  /\ output[4].node = output[2].node
  /\ output[5].kind = "child" /\ output[5].indent = 1
  /\ nodes[output[5].node].parent = RootId
  /\ output[5].node > output[2].node


(* ------------------------------ C19 ----------------------------------- *)

\* The node pushed by the innermost live region, nullptr if no region is live.
InnermostNode ==
  IF regions = <<>> THEN nullptr ELSE opened[regions[Len(regions)].id].node

\* C19: a report, requested at any point, leaves the profiler state unchanged:
\* no node is created, no counter changes, the cursor and the depth stay; so
\* a region whose node the cursor was at before the report still records into
\* that node when it is terminated after the report.
C19_ReportLeavesStateUnchanged ==
  [][/\ output' # <<>> =>
          /\ nodes' = nodes
          /\ current_node' = current_node
          /\ current_depth' = current_depth
          /\ regions' = regions
          /\ fault' = fault
     /\ (output # <<>> /\ current_node # nullptr
         /\ current_node = InnermostNode) =>
          \A k \in Ids :
            Len(opened'[k].landed) > Len(opened[k].landed) =>
              /\ opened'[k].landed = Append(opened[k].landed, opened[k].node)
              /\ nodes'[opened[k].node].num_samples
                   = nodes[opened[k].node].num_samples + 1
    ]_vars

\* A report was printed while two nested regions are open, the cursor at the
\* node of the inner one.
C19_Witness ==
  /\ stop_calls = 0
  /\ output # <<>>
  /\ Len(regions) = 2
  /\ current_depth = 2
  /\ current_node = InnermostNode
  /\ Len(output) >= 3


(* ------------------------------ C20 ----------------------------------- *)

\* The number of places of node n in the childs sequence of node p.
PlacesIn(p, n) ==
  Cardinality({i \in 1..Len(nodes[p].childs) : nodes[p].childs[i] = n})

\* The root is the only node without a parent; every other node is in the
\* childs sequence of its parent, once, and of no other node; every node is
\* reached from the root.
WellFormedTree ==
  /\ nodes[RootId].parent = nullptr
  /\ \A n \in 2..Len(nodes) :
       /\ nodes[n].parent \in 1..Len(nodes)
       /\ \A p \in 1..Len(nodes) :
            PlacesIn(p, n) = IF p = nodes[n].parent THEN 1 ELSE 0
  /\ PlacesIn(RootId, RootId) = 0
  /\ {PreOrder(RootId)[i] : i \in 1..Len(PreOrder(RootId))} = 1..Len(nodes)

\* q is p, possibly with more elements after it.
IsPrefix(p, q) == Len(p) <= Len(q) /\ SubSeq(q, 1, Len(p)) = p

\* A step keeps every node, with its name, its parent and its children in
\* their order, and never decreases num_samples.
OnlyGrows ==
  /\ Len(nodes') >= Len(nodes)
  /\ \A n \in 1..Len(nodes) :
       /\ nodes'[n].name = nodes[n].name
       /\ nodes'[n].parent = nodes[n].parent
       /\ IsPrefix(nodes[n].childs, nodes'[n].childs)
       /\ nodes'[n].num_samples >= nodes[n].num_samples

\* C20: in every reachable state the nodes form a well-formed tree, and the
\* tree only grows: no operation removes a node, reorders children or
\* decreases a node's num_samples.
C20_TreeWellFormedAndGrowing == []WellFormedTree /\ [][OnlyGrows]_vars

\* The root has two children, created in this order, and the first of them
\* has a child of its own and holds a sample.
C20_Witness ==
  /\ stop_calls = 0
  /\ fault = "none"
  /\ Len(nodes) = 4
  /\ nodes[RootId].childs = <<2, 4>>
  /\ nodes[2].childs = <<3>>
  /\ nodes[2].num_samples = 2

====
